---- MODULE Spec2Model ----
\* The Env type of plugins/config/src/configenv/configenv.go: a map from
\* variable names to values, its accessors and mutators, its two textual
\* serialisations, its tar export and its write-back to the file it was read
\* from.
\*
\* A Go string is modelled as a sequence of one-character strings, so that
\* escaping, joining and parsing act on characters as the code does.
EXTENDS Integers, Sequences, FiniteSets, TLC

VARIABLES
    env,            \* Env.env: the map, a function from the stored keys to values
    EscapeNewlines, \* Env.EscapeNewlines
    filename,       \* Env.filename ("" when the Env is bound to no file)
    fs,             \* the content of the file named by getGlobalFile(), or NoFile
    hist,           \* per key, the most recent Set or Unset applied to it
    last            \* the most recent call on the Env, its arguments and results

vars == <<env, EscapeNewlines, filename, fs, hist, last>>

\* ------------------------------------------------------------------ bounds

\* longest value stored by Set in the serialisation model
MaxLen == 1
\* longest value of the Env whose text is escaped, serialised and parsed
MaxEscLen == 3

\* ------------------------------------------------------------ characters

QUOTE == "'"
BACKSLASH == "\\"
NEWLINE == "\n"

\* the byte of each character used in a key: sort.Strings compares bytes
Code(c) ==
    CASE c = "\n" -> 10
      [] c = "="  -> 61
      [] c = "A"  -> 65
      [] c = "B"  -> 66
      [] c = "C"  -> 67

SeqsUpTo(S, n) == UNION {[1..m -> S] : m \in 0..n}

\* all the orders in which a range over a map with key set S may visit it
Orders(S) ==
    {p \in [1..Cardinality(S) -> S] : \A i, j \in 1..Cardinality(S) : i # j => p[i] # p[j]}

\* ------------------------------------------------------- strings helpers

\* does s hold the sequence old at position i
HasAt(s, old, i) ==
    /\ i + Len(old) - 1 <= Len(s)
    /\ \A j \in 1..Len(old) : s[i + j - 1] = old[j]

\* strings.Replace(s, old, new, -1) for a non-empty old: every
\* non-overlapping occurrence of old, scanning from the left
RECURSIVE ReplaceFrom(_, _, _, _)
ReplaceFrom(s, old, new, i) ==
    IF i > Len(s) THEN <<>>
    ELSE IF HasAt(s, old, i) THEN new \o ReplaceFrom(s, old, new, i + Len(old))
    ELSE <<s[i]>> \o ReplaceFrom(s, old, new, i + 1)

Replace(s, old, new) == ReplaceFrom(s, old, new, 1)

\* strings.Join(entries, separator)
RECURSIVE Join(_, _)
Join(entries, separator) ==
    IF Len(entries) = 0 THEN <<>>
    ELSE IF Len(entries) = 1 THEN entries[1]
    ELSE entries[1] \o separator \o Join(Tail(entries), separator)

\* the order of Go's string comparison: byte-wise, a proper prefix first
RECURSIVE Less(_, _)
Less(a, b) ==
    IF Len(b) = 0 THEN FALSE
    ELSE IF Len(a) = 0 THEN TRUE
    ELSE IF Code(a[1]) # Code(b[1]) THEN Code(a[1]) < Code(b[1])
    ELSE Less(Tail(a), Tail(b))

\* sort.Strings: insert each element before the first larger one
RECURSIVE InsertSorted(_, _)
InsertSorted(sorted, k) ==
    IF Len(sorted) = 0 THEN <<k>>
    ELSE IF Less(k, sorted[1]) THEN <<k>> \o sorted
    ELSE <<sorted[1]>> \o InsertSorted(Tail(sorted), k)

RECURSIVE SortStrings(_)
SortStrings(keys) ==
    IF Len(keys) = 0 THEN <<>>
    ELSE InsertSorted(SortStrings(Tail(keys)), keys[1])

\* ------------------------------------------------------------ Env store

EmptyEnv == [k \in {} |-> <<>>]

\* Set: e.env[key] = value
Set(e, key, value) ==
    [k \in DOMAIN e \cup {key} |-> IF k = key THEN value ELSE e[k]]

\* a tombstone in place of the removal
UnsetTombstone(e, key) == [k \in DOMAIN e |-> IF k = key THEN <<>> ELSE e[k]]

\* Unset: delete(e.env, key)
Unset(e, key) == [k \in DOMAIN e \ {key} |-> e[k]]

\* the keys as the range over the map met them, the sort left out
KeysUnsorted(e, iter) == iter

\* Keys: the keys appended in the map's iteration order iter, then sorted
Keys(e, iter) == SortStrings(iter)

\* Get: the value and whether the key is present ("" is the zero value)
Get(e, key) ==
    IF key \in DOMAIN e THEN [v |-> e[key], ok |-> TRUE]
    ELSE [v |-> <<>>, ok |-> FALSE]

\* GetDefault
GetDefault(e, key, defaultValue) ==
    IF key \notin DOMAIN e THEN defaultValue ELSE e[key]

\* the usual reading of a boolean: "", "0", "false" and "no" are false
GetBoolDefaultParsed(e, key, defaultValue) ==
    IF key \notin DOMAIN e THEN defaultValue
    ELSE e[key] \notin {<<>>, <<"0">>, <<"f", "a", "l", "s", "e">>, <<"n", "o">>}

\* GetBoolDefault: value != "0"
GetBoolDefault(e, key, defaultValue) ==
    IF ~Get(e, key).ok THEN defaultValue ELSE Get(e, key).v # <<"0">>

\* Len: len(e.env)
EnvLen(e) == Cardinality(DOMAIN e)

\* Merge: e.Set(k, other.GetDefault(k, "")) for each key of other in the
\* order of other.Keys()
RECURSIVE MergeKeys(_, _, _)
MergeKeys(e, other, keys) ==
    IF Len(keys) = 0 THEN e
    ELSE MergeKeys(Set(e, keys[1], GetDefault(other, keys[1], <<>>)), other, Tail(keys))

\* a merge that keeps the receiver's value of a key both hold
MergeKeepOwn(e, other, iter) ==
    [k \in DOMAIN e \cup DOMAIN other |-> IF k \in DOMAIN e THEN e[k] ELSE other[k]]

Merge(e, other, iter) == MergeKeys(e, other, Keys(other, iter))

\* ------------------------------------------------------- serialisation

\* strings.Replace with n = 1: the first occurrence only
RECURSIVE ReplaceFirstFrom(_, _, _, _)
ReplaceFirstFrom(s, old, new, i) ==
    IF i > Len(s) THEN <<>>
    ELSE IF HasAt(s, old, i) THEN new \o SubSeq(s, i + Len(old), Len(s))
    ELSE <<s[i]>> \o ReplaceFirstFrom(s, old, new, i + 1)

\* the escape with only the first quote replaced
SingleQuoteEscapeFirst(value) ==
    ReplaceFirstFrom(value, <<QUOTE>>, <<QUOTE, BACKSLASH, QUOTE, QUOTE>>, 1)

\* the escape of a double-quoted string: a backslash before each quote
SingleQuoteEscapeBackslash(value) == Replace(value, <<QUOTE>>, <<BACKSLASH, QUOTE>>)

\* SingleQuoteEscape: strings.Replace(value, "'", "'\''", -1)
SingleQuoteEscape(value) ==
    Replace(value, <<QUOTE>>, <<QUOTE, BACKSLASH, QUOTE, QUOTE>>)

\* the replacement of a newline: the Go literal "'$'\\n''"
NewlineEscape == <<QUOTE, "$", QUOTE, BACKSLASH, "n", QUOTE, QUOTE>>

\* the value with its newlines left in whatever the flag says
EntryValueVerbatim(value, escapeNewlines) == SingleQuoteEscape(value)

\* the value of one entry as the loop body builds it
EntryValue(value, escapeNewlines) ==
    IF escapeNewlines
    THEN Replace(SingleQuoteEscape(value), <<NEWLINE>>, NewlineEscape)
    ELSE SingleQuoteEscape(value)

\* fmt.Sprintf("%s%s='%s'", prefix, k, v)
Entry(prefix, k, v) == prefix \o k \o <<"=", QUOTE>> \o v \o <<QUOTE>>

\* the entries slice of StringWithPrefixAndSeparator, one per key of Keys()
Entries(e, escapeNewlines, iter, prefix) ==
    LET keys == Keys(e, iter)
    IN  [i \in 1..Len(keys) |-> Entry(prefix, keys[i], EntryValue(e[keys[i]], escapeNewlines))]

StringWithPrefixAndSeparator(e, escapeNewlines, iter, prefix, separator) ==
    Join(Entries(e, escapeNewlines, iter, prefix), separator)

ExportPrefix == <<"e", "x", "p", "o", "r", "t", " ">>

EnvfileString(e, escapeNewlines, iter) ==
    StringWithPrefixAndSeparator(e, escapeNewlines, iter, <<>>, <<NEWLINE>>)

ExportfileString(e, escapeNewlines, iter) ==
    StringWithPrefixAndSeparator(e, escapeNewlines, iter, ExportPrefix, <<NEWLINE>>)

\* --------------------------------------------------------- tar export

\* Mode: 0600
FileMode == 384

\* the tar writer: the entries that reached dest, whether the trailer did,
\* and the sticky error of archive/tar (after a failed write every later
\* call fails without writing)
NewWriter == [entries |-> <<>>, trailer |-> FALSE, failed |-> FALSE]

\* tarfile.WriteHeader(header); ok says whether dest accepts the write
WriteHeader(tw, header, ok) ==
    IF tw.failed \/ ~ok THEN [tw EXCEPT !.failed = TRUE]
    ELSE [tw EXCEPT !.entries = Append(@, header @@ [Content |-> <<>>])]

\* tarfile.Write(valbin): the content of the entry whose header was written
WriteBody(tw, valbin, ok) ==
    IF tw.failed \/ ~ok THEN [tw EXCEPT !.failed = TRUE]
    ELSE [tw EXCEPT !.entries[Len(tw.entries)].Content = valbin]

\* tarfile.Close(), deferred: the trailer
CloseWriter(tw, ok) ==
    IF tw.failed \/ ~ok THEN [tw EXCEPT !.failed = TRUE]
    ELSE [tw EXCEPT !.trailer = TRUE]

\* the content with the quoting of the textual formats applied
ValbinEscaped(e, k) == SingleQuoteEscape(Get(e, k).v)

\* val, _ := e.Get(k); valbin := []byte(val)
Valbin(e, k) == Get(e, k).v

\* the loop of ExportBundle over keys from index i on; the write calls on
\* dest are numbered from 1 and the call numbered failAt fails (0: none)
RECURSIVE BundleLoop(_, _, _, _, _)
BundleLoop(e, keys, i, tw, failAt) ==
    IF i > Len(keys) THEN tw
    ELSE BundleLoop(e, keys, i + 1,
            WriteBody(
                WriteHeader(tw,
                    [Name |-> keys[i], Mode |-> FileMode, Size |-> Len(Valbin(e, keys[i]))],
                    failAt # 2 * i - 1),
                Valbin(e, keys[i]),
                failAt # 2 * i),
            failAt)

\* the error ExportBundle returns: return nil
BundleError(tw) == FALSE

\* ExportBundle: what dest received and the error returned
ExportBundle(e, iter, failAt) ==
    LET keys == Keys(e, iter)
        tw   == CloseWriter(BundleLoop(e, keys, 1, NewWriter, failAt),
                            failAt # 2 * Len(keys) + 1)
    IN  [entries |-> tw.entries, trailer |-> tw.trailer, writeFailed |-> tw.failed,
         err |-> BundleError(tw)]

\* ------------------------------------------------------------ parsing

\* the text cut at every newline
RECURSIVE SplitLines(_, _, _)
SplitLines(s, i, line) ==
    IF i > Len(s) THEN <<line>>
    ELSE IF s[i] = NEWLINE THEN <<line>> \o SplitLines(s, i + 1, <<>>)
    ELSE SplitLines(s, i + 1, Append(line, s[i]))

\* the position of the first "=" of line from i on, 0 when there is none
RECURSIVE IndexOfEquals(_, _)
IndexOfEquals(line, i) ==
    IF i > Len(line) THEN 0
    ELSE IF line[i] = "=" THEN i
    ELSE IndexOfEquals(line, i + 1)

\* the inverse of SingleQuoteEscape on the text after the opening quote:
\* '\'' is a quote, a quote that ends the line closes the value, any other
\* quote and a missing closing quote are malformed
RECURSIVE Unquote(_, _, _)
Unquote(s, i, acc) ==
    IF i > Len(s) THEN [ok |-> FALSE, v |-> <<>>]
    ELSE IF s[i] # QUOTE THEN Unquote(s, i + 1, Append(acc, s[i]))
    ELSE IF i = Len(s) THEN [ok |-> TRUE, v |-> acc]
    ELSE IF HasAt(s, <<QUOTE, BACKSLASH, QUOTE, QUOTE>>, i)
         THEN Unquote(s, i + 4, Append(acc, QUOTE))
    ELSE [ok |-> FALSE, v |-> <<>>]

\* one line [export ]KEY='value'
ParseLine(line) ==
    LET body == IF HasAt(line, ExportPrefix, 1)
                THEN SubSeq(line, Len(ExportPrefix) + 1, Len(line))
                ELSE line
        eq   == IndexOfEquals(body, 1)
        rest == SubSeq(body, eq + 1, Len(body))
    IN  IF eq <= 1 \/ Len(rest) = 0 THEN [ok |-> FALSE, k |-> <<>>, v |-> <<>>]
        ELSE IF rest[1] # QUOTE THEN [ok |-> FALSE, k |-> <<>>, v |-> <<>>]
        ELSE [ok |-> Unquote(rest, 2, <<>>).ok,
              k  |-> SubSeq(body, 1, eq - 1),
              v  |-> Unquote(rest, 2, <<>>).v]

\* the lines in order: blank lines skipped, the first malformed line ends
\* the parse with an error
RECURSIVE ParseLines(_, _, _)
ParseLines(lines, i, e) ==
    IF i > Len(lines) THEN [err |-> "nil", env |-> e]
    ELSE IF Len(lines[i]) = 0 THEN ParseLines(lines, i + 1, e)
    ELSE IF ~ParseLine(lines[i]).ok THEN [err |-> "parse", env |-> EmptyEnv]
    ELSE ParseLines(lines, i + 1, Set(e, ParseLine(lines[i]).k, ParseLine(lines[i]).v))

\* parseEnvFromReader(name, filename, reader)
parseEnvFromReader(name, fname, rep) ==
    ParseLines(SplitLines(rep, 1, <<>>), 1, EmptyEnv) @@ [filename |-> fname]

\* NewFromString: parseEnvFromReader("<unknown>", "", strings.NewReader(rep))
NewFromString(rep) == parseEnvFromReader("<unknown>", "", rep)

\* -------------------------------------------------------- persistence

\* getGlobalFile(): the one file the model's file system holds
GlobalFile == "DOKKU_ROOT/ENV"

NoFile == [exists |-> FALSE, data |-> <<>>]

\* Write without the check of the backing path
WriteUnchecked(e, escapeNewlines, iter, fname, file, createOk, written) ==
    IF ~createOk THEN [err |-> "io", file |-> file, calls |-> <<"Create">>]
    ELSE [err   |-> IF written < Len(ExportfileString(e, escapeNewlines, iter))
                    THEN "io" ELSE "nil",
          file  |-> [exists |-> TRUE,
                     data |-> SubSeq(ExportfileString(e, escapeNewlines, iter), 1, written)],
          calls |-> <<"Create", "WriteString", "Close">>]

\* Write: the error returned, the file afterwards and the file-system calls
\* made. createOk says whether os.Create succeeds; written is the number of
\* characters file.WriteString gets to the file before it returns
Write(e, escapeNewlines, iter, fname, file, createOk, written) ==
    IF fname = "" THEN [err |-> "unbound", file |-> file, calls |-> <<>>]
    ELSE IF ~createOk THEN [err |-> "io", file |-> file, calls |-> <<"Create">>]
    ELSE [err   |-> IF written < Len(ExportfileString(e, escapeNewlines, iter))
                    THEN "io" ELSE "nil",
          file  |-> [exists |-> TRUE,
                     data |-> SubSeq(ExportfileString(e, escapeNewlines, iter), 1, written)],
          calls |-> <<"Create", "WriteString", "Close">>]

\* --------------------------------------------------------------- calls
\* One action per exported operation. Each records the call in last. The
\* order in which a range over the map visits the keys is chosen by \E.

\* hist after a Set or Unset of key (only the keys hist tracks)
Track(key, what) == [k \in DOMAIN hist |-> IF k = key THEN what ELSE hist[k]]

SetCall(key, value) ==
    /\ env' = Set(env, key, value)
    /\ hist' = Track(key, <<"set", value>>)
    /\ last' = [op |-> "Set", key |-> key, value |-> value]
    /\ UNCHANGED <<EscapeNewlines, filename, fs>>

UnsetCall(key) ==
    /\ env' = Unset(env, key)
    /\ hist' = Track(key, <<"unset">>)
    /\ last' = [op |-> "Unset", key |-> key, present |-> key \in DOMAIN env]
    /\ UNCHANGED <<EscapeNewlines, filename, fs>>

MergeCall(other) ==
    /\ \E iter \in Orders(DOMAIN other) : env' = Merge(env, other, iter)
    /\ hist' = [k \in DOMAIN hist |->
                  IF k \in DOMAIN other THEN <<"set", other[k]>> ELSE hist[k]]
    /\ last' = [op |-> "Merge", other |-> other]
    /\ UNCHANGED <<EscapeNewlines, filename, fs>>

GetCall(key) ==
    /\ last' = [op |-> "Get", key |-> key, res |-> Get(env, key)]
    /\ UNCHANGED <<env, EscapeNewlines, filename, fs, hist>>

GetDefaultCall(key, defaultValue) ==
    /\ last' = [op |-> "GetDefault", key |-> key, def |-> defaultValue,
                res |-> GetDefault(env, key, defaultValue)]
    /\ UNCHANGED <<env, EscapeNewlines, filename, fs, hist>>

GetBoolDefaultCall(key, defaultValue) ==
    /\ last' = [op |-> "GetBoolDefault", key |-> key, def |-> defaultValue,
                res |-> GetBoolDefault(env, key, defaultValue)]
    /\ UNCHANGED <<env, EscapeNewlines, filename, fs, hist>>

LenCall ==
    /\ last' = [op |-> "Len", res |-> EnvLen(env)]
    /\ UNCHANGED <<env, EscapeNewlines, filename, fs, hist>>

KeysCall ==
    /\ \E iter \in Orders(DOMAIN env) : last' = [op |-> "Keys", res |-> Keys(env, iter)]
    /\ UNCHANGED <<env, EscapeNewlines, filename, fs, hist>>

\* the exported field EscapeNewlines is assigned by the caller
SetEscapeNewlines(b) ==
    /\ EscapeNewlines' = b
    /\ last' = [op |-> "EscapeNewlines"]
    /\ UNCHANGED <<env, filename, fs, hist>>

EnvfileStringCall ==
    /\ \E iter \in Orders(DOMAIN env) :
          last' = [op |-> "EnvfileString", res |-> EnvfileString(env, EscapeNewlines, iter)]
    /\ UNCHANGED <<env, EscapeNewlines, filename, fs, hist>>

ExportfileStringCall ==
    /\ \E iter \in Orders(DOMAIN env) :
          last' = [op |-> "ExportfileString",
                   res |-> ExportfileString(env, EscapeNewlines, iter)]
    /\ UNCHANGED <<env, EscapeNewlines, filename, fs, hist>>

SingleQuoteEscapeCall(value) ==
    /\ last' = [op |-> "SingleQuoteEscape", arg |-> value, res |-> SingleQuoteEscape(value)]
    /\ UNCHANGED <<env, EscapeNewlines, filename, fs, hist>>

\* dest fails at its failAt-th write, or never (0)
ExportBundleCall(failAt) ==
    /\ \E iter \in Orders(DOMAIN env) :
          last' = [op |-> "ExportBundle", failAt |-> failAt,
                   res |-> ExportBundle(env, iter, failAt)]
    /\ UNCHANGED <<env, EscapeNewlines, filename, fs, hist>>

NewFromStringCall(rep) ==
    /\ last' = [op |-> "NewFromString", rep |-> rep, res |-> NewFromString(rep)]
    /\ UNCHANGED <<env, EscapeNewlines, filename, fs, hist>>

\* os.Create succeeds or not; file.WriteString writes all of the text or
\* stops after any shorter prefix of it
WriteCall(createOk) ==
    /\ \E iter \in Orders(DOMAIN env) :
          \E written \in 0..Len(ExportfileString(env, EscapeNewlines, iter)) :
              LET r == Write(env, EscapeNewlines, iter, filename, fs, createOk, written)
              IN  /\ fs' = r.file
                  /\ last' = [op |-> "Write", err |-> r.err, calls |-> r.calls]
    /\ UNCHANGED <<env, EscapeNewlines, filename, hist>>

\* ------------------------------------------------- Spec: the Env store
\* An Env created empty (NewFromString of the empty text) and then queried
\* and mutated.

StoreKeys == {<<"A">>, <<"B">>, <<"C">>}

StoreValues ==
    {<<>>, <<"0">>, <<"1">>, <<"2">>, <<"3">>, <<"9">>,
     <<"f", "a", "l", "s", "e">>, <<"n", "o">>}

\* every Env over the keys KS with values in VS
EnvsOver(KS, VS) == UNION {[D -> VS] : D \in SUBSET KS}

StoreOthers == EnvsOver({<<"B">>, <<"C">>}, {<<"3">>, <<"9">>})

Init ==
    /\ env = EmptyEnv
    /\ EscapeNewlines = FALSE
    /\ filename = ""
    /\ fs = NoFile
    /\ hist = [k \in StoreKeys |-> <<"never">>]
    /\ last = [op |-> "New"]

Next ==
    \/ \E k \in StoreKeys, v \in StoreValues : SetCall(k, v)
    \/ \E k \in StoreKeys : UnsetCall(k)
    \/ \E o \in StoreOthers : MergeCall(o)
    \/ \E k \in StoreKeys : GetCall(k)
    \/ \E k \in StoreKeys, d \in {<<>>, <<"9">>} : GetDefaultCall(k, d)
    \/ \E k \in StoreKeys, d \in BOOLEAN : GetBoolDefaultCall(k, d)
    \/ LenCall

Spec == Init /\ [][Next]_vars

\* C4: Get(k) reports (v, true) exactly when the most recent Set or Unset on
\* k was Set(k, v), and not found when k was never set or was last unset;
\* Len() is the number of keys Get finds; a Set or Unset leaves the value of
\* every other key as it was, and an Unset of an absent key changes nothing.
C4_GetMatchesHistory ==
    /\ \A k \in StoreKeys :
          /\ hist[k][1] = "set" => Get(env, k) = [v |-> hist[k][2], ok |-> TRUE]
          /\ hist[k][1] \in {"never", "unset"} => ~Get(env, k).ok
    /\ EnvLen(env) = Cardinality({k \in StoreKeys : Get(env, k).ok})

C4_StepLeavesOthers ==
    /\ last'.op \in {"Set", "Unset"} =>
          \A k \in StoreKeys \ {last'.key} : Get(env', k) = Get(env, k)
    /\ (last'.op = "Unset" /\ ~last'.present) => env' = env

\* C4: the map agrees with the last write per key in every state, and every
\* Set or Unset step leaves the other keys alone.
C4_SetUnsetGet == []C4_GetMatchesHistory /\ [][C4_StepLeavesOthers]_vars

\* an Unset of a stored key, with another key stored and a third never set
C4_Witness ==
    /\ last.op = "Unset" /\ last.present
    /\ \E k \in StoreKeys : hist[k][1] = "set"
    /\ \E k \in StoreKeys : hist[k][1] = "never"

\* C5: after e.Merge(other) every key of other has other's value, every key
\* of e that other lacks has its old value, and e holds no key that neither
\* held; {A:1, B:2} merged with {B:9, C:3} is {A:1, B:9, C:3}.
MergePost(before, other, after) ==
    /\ \A k \in DOMAIN other : Get(after, k) = [v |-> other[k], ok |-> TRUE]
    /\ \A k \in DOMAIN before \ DOMAIN other : Get(after, k) = Get(before, k)
    /\ DOMAIN after \subseteq DOMAIN before \cup DOMAIN other

ExampleReceiver == (<<"A">> :> <<"1">>) @@ (<<"B">> :> <<"2">>)
ExampleOther == (<<"B">> :> <<"9">>) @@ (<<"C">> :> <<"3">>)
ExampleMerged == (<<"A">> :> <<"1">>) @@ (<<"B">> :> <<"9">>) @@ (<<"C">> :> <<"3">>)

C5_MergeStep ==
    last'.op = "Merge" =>
        /\ MergePost(env, last'.other, env')
        /\ (env = ExampleReceiver /\ last'.other = ExampleOther) => env' = ExampleMerged

\* C5: every Merge step is a union with override.
C5_MergeIsUnionWithOverride == [][C5_MergeStep]_vars

\* the example's result, reached by merging the example's other
C5_Witness ==
    /\ last.op = "Merge" /\ last.other = ExampleOther
    /\ env = ExampleMerged
    /\ hist[<<"A">>] = <<"set", <<"1">>>>

\* C9: GetBoolDefault returns the default for an absent key; for a stored
\* key it returns false exactly when the value is "0", whatever the default,
\* and true for "", "false" and "no"; it leaves the Env as it was.
C9_Result ==
    last.op = "GetBoolDefault" =>
        /\ last.key \notin DOMAIN env => last.res = last.def
        /\ last.key \in DOMAIN env =>
              /\ last.res = FALSE <=> env[last.key] = <<"0">>
              /\ env[last.key] \in {<<>>, <<"f", "a", "l", "s", "e">>, <<"n", "o">>}
                    => last.res = TRUE

\* C9: the result of GetBoolDefault in every state, and no GetBoolDefault
\* step changes the Env.
C9_GetBoolDefault ==
    []C9_Result /\ [][last'.op = "GetBoolDefault" => env' = env /\ hist' = hist]_vars

\* the stored value "false" read with the default false gives true
C9_Witness ==
    /\ last.op = "GetBoolDefault" /\ last.def = FALSE /\ last.res = TRUE
    /\ last.key \in DOMAIN env /\ env[last.key] = <<"f", "a", "l", "s", "e">>

\* ------------------------------------- SpecFormat: the serialisations
\* An Env filled by Set, Unset and Merge and then listed, serialised to the
\* two textual formats and exported as a tar stream. hist tracks no key.

FormatKeys == {<<"A">>, <<"B">>, <<"A", NEWLINE>>}

FormatValues == SeqsUpTo({QUOTE, NEWLINE}, MaxLen) \cup {<<"x">>, <<"y">>}

FormatOthers == EnvsOver({<<"A">>, <<"B">>}, {<<"y">>})

InitFormat ==
    /\ env = EmptyEnv
    /\ EscapeNewlines = FALSE
    /\ filename = ""
    /\ fs = NoFile
    /\ hist = EmptyEnv
    /\ last = [op |-> "New"]

NextFormat ==
    \/ \E k \in FormatKeys, v \in FormatValues : SetCall(k, v)
    \/ \E k \in FormatKeys : UnsetCall(k)
    \/ \E o \in FormatOthers : MergeCall(o)
    \/ \E b \in BOOLEAN : SetEscapeNewlines(b)
    \/ KeysCall
    \/ EnvfileStringCall
    \/ ExportfileStringCall
    \/ \E failAt \in 0..(2 * EnvLen(env) + 1) : ExportBundleCall(failAt)

SpecFormat == InitFormat /\ [][NextFormat]_vars

\* the number of occurrences of the character c in s
Count(s, c) == Cardinality({i \in 1..Len(s) : s[i] = c})

\* the one strictly ascending listing of the key set S
Ascending(S) ==
    CHOOSE p \in Orders(S) : \A i \in 1..(Len(p) - 1) : Less(p[i], p[i + 1])

\* the lines of the Env in ascending key order, each built from its key alone
LinesInOrder(prefix) ==
    LET keys == Ascending(DOMAIN env)
    IN  [i \in 1..EnvLen(env) |->
            Entry(prefix, keys[i], EntryValue(env[keys[i]], EscapeNewlines))]

\* C2: Keys() lists every stored key once, ascending byte-wise; the two
\* textual formats and the tar export emit one entry per key in that order,
\* so the output depends on the entries and the flag alone, not on the order
\* in which the map hands out its keys.
C2_SortedKeysAndOutput ==
    /\ last.op = "Keys" =>
          /\ Len(last.res) = EnvLen(env)
          /\ {last.res[i] : i \in 1..Len(last.res)} = DOMAIN env
          /\ \A i \in 1..(Len(last.res) - 1) : Less(last.res[i], last.res[i + 1])
    /\ last.op = "EnvfileString" => last.res = Join(LinesInOrder(<<>>), <<NEWLINE>>)
    /\ last.op = "ExportfileString" =>
          last.res = Join(LinesInOrder(ExportPrefix), <<NEWLINE>>)
    /\ (last.op = "ExportBundle" /\ last.failAt = 0) =>
          [i \in 1..Len(last.res.entries) |-> last.res.entries[i].Name]
             = Ascending(DOMAIN env)

\* three keys listed, among them a key and a proper prefix of it
C2_Witness ==
    /\ last.op = "Keys" /\ Len(last.res) = 3
    /\ last.res[1] = <<"A">> /\ last.res[2] = <<"A", NEWLINE>>

\* C7: when a write to dest fails during ExportBundle, ExportBundle returns
\* a non-nil error.
C7_BundleReportsWriteFailure ==
    (last.op = "ExportBundle" /\ last.res.writeFailed) => last.res.err

\* C8: ExportBundle on n entries writes n archive entries in ascending key
\* order, each named by its key, mode 0600, size the length of the raw
\* value, content the raw value, whatever the flag; {A:"x", B:"y"} gives A
\* then B, each of size 1.
ExampleBundle == (<<"A">> :> <<"x">>) @@ (<<"B">> :> <<"y">>)

C8_BundleEntries ==
    (last.op = "ExportBundle" /\ last.failAt = 0) =>
        /\ Len(last.res.entries) = EnvLen(env)
        /\ last.res.trailer
        /\ LET keys == Ascending(DOMAIN env)
           IN  \A i \in 1..Len(last.res.entries) :
                  last.res.entries[i] =
                     [Name |-> keys[i], Mode |-> 384, Size |-> Len(env[keys[i]]),
                      Content |-> env[keys[i]]]
        /\ env = ExampleBundle =>
              last.res.entries =
                 << [Name |-> <<"A">>, Mode |-> 384, Size |-> 1, Content |-> <<"x">>],
                    [Name |-> <<"B">>, Mode |-> 384, Size |-> 1, Content |-> <<"y">>] >>

\* an export, with the flag set, of an Env holding a quote and a newline
C8_Witness ==
    /\ last.op = "ExportBundle" /\ last.failAt = 0 /\ EscapeNewlines
    /\ EnvLen(env) >= 2
    /\ \E k \in DOMAIN env : env[k] = <<QUOTE>>
    /\ \E k \in DOMAIN env : env[k] = <<NEWLINE>>

\* C10 as stated: with the flag set the output for n >= 1 entries holds
\* exactly n - 1 newline characters.
C10_OneLinePerEntry ==
    (last.op \in {"EnvfileString", "ExportfileString"} /\ EscapeNewlines /\ EnvLen(env) >= 1)
        => Count(last.res, NEWLINE) = EnvLen(env) - 1

\* the newline characters in the keys and in the values of the Env
RECURSIVE NewlinesIn(_, _)
NewlinesIn(e, S) ==
    IF S = {} THEN [keys |-> 0, values |-> 0]
    ELSE LET k == CHOOSE x \in S : TRUE
             r == NewlinesIn(e, S \ {k})
         IN  [keys |-> r.keys + Count(k, NEWLINE), values |-> r.values + Count(e[k], NEWLINE)]

\* C10, amended: with the flag set and no newline in any key, the output for
\* n >= 1 entries holds exactly n - 1 newline characters (keys are written
\* as they are); with the flag unset every newline of a value is in the
\* output too.
C10_OneLinePerEntryNewlineFreeKeys ==
    (last.op \in {"EnvfileString", "ExportfileString"} /\ EnvLen(env) >= 1) =>
        /\ (EscapeNewlines /\ NewlinesIn(env, DOMAIN env).keys = 0)
              => Count(last.res, NEWLINE) = EnvLen(env) - 1
        /\ EscapeNewlines
              => Count(last.res, NEWLINE)
                    = EnvLen(env) - 1 + NewlinesIn(env, DOMAIN env).keys
        /\ ~EscapeNewlines
              => Count(last.res, NEWLINE)
                    = EnvLen(env) - 1 + NewlinesIn(env, DOMAIN env).keys
                        + NewlinesIn(env, DOMAIN env).values

\* two entries serialised with the flag set, a value holding a newline
C10_Witness ==
    /\ last.op = "EnvfileString" /\ EscapeNewlines
    /\ EnvLen(env) = 2 /\ NewlinesIn(env, DOMAIN env).keys = 0
    /\ NewlinesIn(env, DOMAIN env).values >= 1

\* ------------------------------------------ SpecCodec: text and back
\* The escaping, the serialisation and the parse as functions of their
\* input: the Env is drawn from a bounded set and the functions applied.

CodecAlphabet == {QUOTE, BACKSLASH, NEWLINE}

CodecValues == SeqsUpTo(CodecAlphabet, MaxEscLen)

ShortValues == {<<>>, <<QUOTE>>, <<BACKSLASH>>, <<NEWLINE>>}

\* A holds any value, B a short one, the key with "=" in it the empty one
CodecEnvs ==
    {a @@ b @@ c : a \in EnvsOver({<<"A">>}, CodecValues),
                   b \in EnvsOver({<<"B">>}, ShortValues),
                   c \in EnvsOver({<<"A", "=">>}, {<<>>})}

ItS == <<"i", "t", QUOTE, "s">>

InitCodec ==
    /\ env \in CodecEnvs
    /\ EscapeNewlines \in BOOLEAN
    /\ filename = ""
    /\ fs = NoFile
    /\ hist = EmptyEnv
    /\ last = [op |-> "New"]

NextCodec ==
    \/ \E k \in DOMAIN env : SingleQuoteEscapeCall(env[k])
    \/ SingleQuoteEscapeCall(ItS)
    \/ last.op = "SingleQuoteEscape" /\ Len(last.arg) <= MaxEscLen + 1
          /\ SingleQuoteEscapeCall(last.res)
    \/ EnvfileStringCall
    \/ ExportfileStringCall
    \/ last.op \in {"EnvfileString", "ExportfileString"} /\ NewFromStringCall(last.res)
    \/ \E rep \in {<<>>, <<NEWLINE>>, <<"A">>, <<"A", "=">>} : NewFromStringCall(rep)

SpecCodec == InitCodec /\ [][NextCodec]_vars

\* the plain serialisation of the Env
PlainText == Join(LinesInOrder(<<>>), <<NEWLINE>>)

PlainKey(k) ==
    /\ Len(k) >= 1
    /\ \A i \in 1..Len(k) : k[i] \notin {"=", QUOTE, NEWLINE, " "}

IsEscapeOf(arg, res) ==
    /\ Len(res) = Len(arg) + 3 * Count(arg, QUOTE)
    /\ \A i \in 1..Len(arg) :
          LET p == i + 3 * Count(SubSeq(arg, 1, i - 1), QUOTE)
          IN  IF arg[i] = QUOTE
              THEN /\ res[p] = QUOTE /\ res[p + 1] = BACKSLASH
                   /\ res[p + 2] = QUOTE /\ res[p + 3] = QUOTE
              ELSE res[p] = arg[i]

\* C3: SingleQuoteEscape replaces every quote by the four characters '\''
\* and leaves the rest in place, so n quotes lengthen the value by 3n; it's
\* becomes it'\''s; escaping changes any input holding a quote, an escaped
\* one included; the serialisation wraps the escaped value in quotes.
C3_SingleQuoteEscape ==
    /\ last.op = "SingleQuoteEscape" =>
          /\ IsEscapeOf(last.arg, last.res)
          /\ last.arg = ItS => last.res = <<"i", "t", QUOTE, BACKSLASH, QUOTE, QUOTE, "s">>
          /\ Count(last.arg, QUOTE) >= 1 => last.res # last.arg
          /\ Count(last.arg, QUOTE) = 0 => last.res = last.arg
    /\ (last.op = "EnvfileString" /\ ~EscapeNewlines /\ DOMAIN env = {<<"A">>}) =>
          /\ SubSeq(last.res, 1, 3) = <<"A", "=", QUOTE>>
          /\ last.res[Len(last.res)] = QUOTE
          /\ IsEscapeOf(env[<<"A">>], SubSeq(last.res, 4, Len(last.res) - 1))

\* the escape applied to an escaped value
C3_Witness ==
    /\ last.op = "SingleQuoteEscape"
    /\ last.arg = <<"i", "t", QUOTE, BACKSLASH, QUOTE, QUOTE, "s">>
    /\ Len(last.res) = 16

\* --------------------------------------------- SpecWrite: write-back
\* An Env bound to the global file or to none, changed and written back.

WriteKeys == {<<"A">>, <<"B">>}

WriteValues == {<<"x">>, <<QUOTE>>}

OldFile == [exists |-> TRUE, data |-> <<"o", "l", "d">>]

InitWrite ==
    /\ env = EmptyEnv
    /\ EscapeNewlines = FALSE
    /\ filename \in {"", GlobalFile}
    /\ fs \in {NoFile, OldFile}
    /\ hist = EmptyEnv
    /\ last = [op |-> "New"]

NextWrite ==
    \/ \E k \in WriteKeys, v \in WriteValues : SetCall(k, v)
    \/ \E k \in WriteKeys : UnsetCall(k)
    \/ \E createOk \in BOOLEAN : WriteCall(createOk)

SpecWrite == InitWrite /\ [][NextWrite]_vars

\* C6: Write() on an Env with no backing path returns the not-bound error,
\* makes no file-system call, creates or truncates no file and leaves the
\* entries as they were.
C6_WriteStep ==
    (last'.op = "Write" /\ filename = "") =>
        /\ last'.err = "unbound"
        /\ last'.calls = <<>>
        /\ fs' = fs
        /\ env' = env

C6_UnboundResult ==
    (last.op = "Write" /\ filename = "") => (last.err = "unbound" /\ last.calls = <<>>)

\* C6: the result of an unbound Write in every state, and every unbound
\* Write step leaves the file and the entries alone.
C6_UnboundWrite == []C6_UnboundResult /\ [][C6_WriteStep]_vars

\* a Write of a non-empty unbound Env beside an existing file
C6_Witness ==
    /\ last.op = "Write" /\ filename = "" /\ last.err = "unbound"
    /\ EnvLen(env) = 2 /\ fs = OldFile

====
